---- MODULE Spec2Model ----
(***************************************************************************)
(* The system-property store of libc/system_properties/system_properties.cpp *)
(* as a state machine: one writer thread (Init, AreaInit, Add, Update) and   *)
(* client threads (Find, Get, Read, ReadCallback, AreaSerial, Wait, WaitAny, *)
(* Foreach), interleaved at the granularity of single serial loads and       *)
(* stores, single byte copies and single futex calls.                        *)
(***************************************************************************)
EXTENDS Integers, Sequences, FiniteSets, TLC

\* --------------------------------------------------------------- constants

\* The size of a record's inline value and of an area's dirty-backup buffer.
PROP_VALUE_MAX == 92

\* The number of Add and Update calls the writer makes.
MaxCalls == 3

\* x << 24 in uint32_t, for the lengths below 128 the store keeps (the
\* product stays below 2^31).
Shl24(x) == x * 16777216

SERIAL_DIRTY(serial) == serial % 2

SERIAL_VALUE_LEN(serial) == serial \div 16777216

\* ------------------------------------------------------------------- names

\* Property names are strings of characters; namelen is passed beside them.
N_ab == <<"a", ".", "b">>
N_ac == <<"a", ".", "c">>
N_rox == <<"r", "o", ".", "x">>
N_deny == <<"z", ".", "d">>
N_empty == <<>>

\* The names records can exist for.
Names == {N_ab, N_ac, N_rox}

\* The names ReadCallback has constants for.
N_adbd ==
  <<"i", "n", "i", "t", ".", "s", "v", "c", ".", "a", "d", "b", "d">>
N_configfs ==
  <<"s", "y", "s", ".", "u", "s", "b", ".", "c", "o", "n", "f", "i", "g", "f", "s">>
N_persist_usb_config ==
  <<"p", "e", "r", "s", "i", "s", "t", ".", "s", "y", "s", ".", "u", "s", "b", ".", "c", "o", "n", "f", "i", "g">>
N_usb_config ==
  <<"s", "y", "s", ".", "u", "s", "b", ".", "c", "o", "n", "f", "i", "g">>
N_usb_state ==
  <<"s", "y", "s", ".", "u", "s", "b", ".", "s", "t", "a", "t", "e">>

UsbNames ==
  {N_adbd, N_configfs, N_persist_usb_config, N_usb_config, N_usb_state}

\* strncmp(a, b, n) == 0 on NUL-terminated strings.
strncmp_eq(a, b, n) ==
  \A i \in 1..n :
    LET ca == IF i <= Len(a) THEN a[i] ELSE "NUL"
        cb == IF i <= Len(b) THEN b[i] ELSE "NUL"
    IN  ca = cb

is_read_only(name) == strncmp_eq(name, <<"r", "o", ".">>, 3)

\* ------------------------------------------------------------------ values

\* A buffer of PROP_VALUE_MAX bytes, kept as the bytes up to the last one
\* that differs from the byte the buffer was filled with.
BufGet(buf, i) == IF i <= Len(buf.data) THEN buf.data[i] ELSE buf.fill

Trim(buf) ==
  LET keep == {i \in 1..Len(buf.data) : buf.data[i] # buf.fill}
      last == IF keep = {} THEN 0
              ELSE CHOOSE i \in keep : \A j \in keep : j <= i
  IN  [buf EXCEPT !.data = SubSeq(buf.data, 1, last)]

\* buf[i] = b, for 1 <= i <= PROP_VALUE_MAX (the C index plus one).
BufPut(buf, i, b) ==
  Trim([buf EXCEPT !.data =
          [j \in 1..(IF i > Len(buf.data) THEN i ELSE Len(buf.data)) |->
             IF j = i THEN b ELSE BufGet(buf, j)]])

Bytes(buf) == [i \in 1..PROP_VALUE_MAX |-> BufGet(buf, i)]

\* Memory of a fresh mapping.
ZeroBuf == [fill |-> 0, data |-> <<>>]

\* A caller's buffer before the call wrote to it.
GarbageBuf == [fill |-> 63, data |-> <<>>]

\* "stopped", "0" and "none".
S_stopped == <<115, 116, 111, 112, 112, 101, 100>>
S_0 == <<48>>
S_none == <<110, 111, 110, 101>>

V_A == <<65>>
V_BB == <<66, 66>>
V_CC == <<67, 67>>
V_long == [i \in 1..PROP_VALUE_MAX |-> 120]
\* The longest value a record holds inline: PROP_VALUE_MAX - 1 bytes.
V_91 == [i \in 1..(PROP_VALUE_MAX - 1) |-> 121]

\* A file name, and whether strlen(filename) >= PROP_FILENAME_MAX.
F_dir == [path |-> "/dev/__properties__", tooLong |-> FALSE]
F_long == [path |-> "/long/.../path", tooLong |-> TRUE]
F_file == [path |-> "/dev/__properties__.file", tooLong |-> FALSE]

\* The C string a buffer holds: the bytes before the first NUL.
CStr(buf) ==
  LET nul == {i \in 1..PROP_VALUE_MAX : BufGet(buf, i) = 0}
  IN  IF nul = {} THEN Bytes(buf)
      ELSE SubSeq(Bytes(buf), 1, (CHOOSE i \in nul : \A j \in nul : i <= j) - 1)

\* The buffer that holds string v from its first byte on, NUL after it.
BufOf(v) == Trim([fill |-> 0, data |-> v])

Min(a, b) == IF a < b THEN a ELSE b

\* ------------------------------------------------------------------- state

NoArea == "nullptr"
\* The futex address of the area-serial; a record's is its name.
AreaAddr == <<"serial_pa">>
NoAddr == <<>>
NoProp == <<"nullptr">>

Clients == {"c1"}

VARIABLES
  initialized_,        \* SystemProperties::initialized_
  contexts_,           \* the Contexts the store owns: its kind, its serial area
  property_filename_,  \* SystemProperties::property_filename_
  props,               \* name -> the prop_info of that name (present or not)
  backup,              \* area -> its dirty-backup buffer
  areaSerial,          \* the serial word of the serial area
  w,                   \* the writer thread's frame
  c,                   \* client -> that client thread's frame
  hist                 \* name -> the <<clean serial, value>> epochs of its record

vars == <<initialized_, contexts_, property_filename_, props, backup,
          areaSerial, w, c, hist>>

shared == <<props, backup, areaSerial>>

store == <<initialized_, contexts_, property_filename_>>

Areas == {"pa_a", "pa_ro", "pa_sys"}

\* Contexts::GetPropAreaForName: the area of the longest prefix the name
\* matches, nullptr for a name no context claims.
GetPropAreaForName(name) ==
  IF strncmp_eq(name, <<"a", ".">>, 2) THEN "pa_a"
  ELSE IF strncmp_eq(name, <<"r", "o", ".">>, 3) THEN "pa_ro"
  ELSE IF \/ strncmp_eq(name, <<"i", "n", "i", "t", ".">>, 5)
          \/ strncmp_eq(name, <<"s", "y", "s", ".">>, 4)
          \/ strncmp_eq(name, <<"p", "e", "r", "s", "i", "s", "t", ".">>, 8)
    THEN "pa_sys"
  ELSE NoArea

\* Contexts::GetSerialPropArea: the serial area, or nullptr.
GetSerialPropArea == IF contexts_.serial_pa THEN "serial" ELSE NoArea

AbsentProp == [present |-> FALSE, serial |-> 0, value |-> ZeroBuf]

\* prop_area::find
pa_find(name) ==
  IF name \in DOMAIN props /\ props[name].present THEN name ELSE NoProp

\* prop_info::prop_info: serial (valuelen << 24), the value and its terminator.
NewProp(value, valuelen) ==
  [present |-> TRUE, serial |-> Shl24(valuelen),
   value |-> BufOf(SubSeq(value, 1, valuelen))]

\* prop_info::prop_info for a long value: the value is stored out of line,
\* the inline value and the length in the serial are those of the empty
\* string.
NewLongProp(value, valuelen) ==
  [present |-> TRUE, serial |-> Shl24(0), value |-> ZeroBuf,
   long_value |-> SubSeq(value, 1, valuelen)]

\* prop_area::add: the record it constructs for a value.
pa_add(value, valuelen) ==
  IF valuelen >= PROP_VALUE_MAX
    THEN NewLongProp(value, valuelen)
    ELSE NewProp(value, valuelen)

WIdle ==
  [pc |-> "idle", op |-> "none", name |-> NoProp, namelen |-> 0,
   value |-> <<>>, len |-> 0, room |-> TRUE,
   serial |-> 0, i |-> 0, ret |-> 0, ok |-> FALSE, area0 |-> 0, calls |-> 0]

CIdle ==
  [pc |-> "idle", op |-> "none", name |-> <<>>, pi |-> NoProp,
   addr |-> NoAddr, old |-> 0,
   tmo |-> FALSE, serial |-> 0, new_serial |-> 0, i |-> 0,
   value |-> GarbageBuf, ret |-> 0, ok |-> FALSE, written |-> FALSE,
   quiet |-> TRUE, atcall |-> 0, seen |-> [n \in Names |-> 0],
   uid |-> 0, cb |-> <<>>]

Init ==
  /\ initialized_ = FALSE
  /\ contexts_ = [kind |-> "nullptr", serial_pa |-> FALSE]
  /\ property_filename_ = ""
  /\ props = [n \in Names |-> AbsentProp]
  /\ backup = [a \in Areas |-> ZeroBuf]
  /\ areaSerial = 0
  /\ w = WIdle
  /\ c = [k \in Clients |-> CIdle]
  /\ hist = [n \in Names |-> <<>>]

\* ---------------------------------------------------------------- futexes

\* __futex_wake(addr, INT32_MAX): every thread asleep on addr is made to run.
futex_wake(cs, addr) ==
  [k \in Clients |->
     IF cs[k].pc = "W_sleep" /\ cs[k].addr = addr
       THEN [cs[k] EXCEPT !.pc = "W_load"]
       ELSE cs[k]]

\* A writer call begins: no client's call, under way or returned and not yet
\* taken up by its caller, has the store to itself.
Disturb(cs) ==
  [k \in Clients |->
     IF cs[k].pc # "idle"
       THEN [cs[k] EXCEPT !.quiet = FALSE]
       ELSE cs[k]]

\* ----------------------------------------------------------------- writer

WCall(op, name, value, len) ==
  [WIdle EXCEPT !.op = op, !.name = name, !.value = value, !.len = len,
                !.area0 = areaSerial, !.calls = w.calls]

\* SystemProperties::AreaInit. initOK and serialPA are what
\* Contexts::Initialize makes of the file: whether it succeeds, and whether
\* the Contexts then has a serial area.
AreaInit(filename, initOK, serialPA) ==
  /\ w.pc = "idle"
  /\ ~initialized_
  /\ IF filename.tooLong
       THEN /\ UNCHANGED store
            /\ w' = [WCall("AreaInit", NoProp, <<>>, 0) EXCEPT
                       !.pc = "ret", !.ok = FALSE]
       ELSE /\ property_filename_' = filename.path
            /\ contexts_' = [kind |-> "ContextsSerialized",
                             serial_pa |-> initOK /\ serialPA]
            /\ initialized_' = initOK
            /\ w' = [WCall("AreaInit", NoProp, <<>>, 0) EXCEPT
                       !.pc = "ret", !.ok = initOK]
  /\ c' = Disturb(c)
  /\ UNCHANGED <<shared, hist>>

\* Init without the test of initialized_: every call initializes again.
InitAgain_Always == FALSE

\* if (initialized_) { contexts_->ResetAccess(); return true; }
InitAgain == initialized_

\* The Contexts variant Init chooses: dir is is_dir(property_filename_), info
\* is access("/dev/__properties__/property_info", R_OK) == 0.
ContextsVariant(dir, info) ==
  IF dir
    THEN IF info THEN "ContextsSerialized" ELSE "ContextsSplit"
    ELSE "ContextsPreSplit"

\* SystemProperties::Init. dir and info are what the file system answers,
\* initOK and serialPA what Contexts::Initialize makes of the file. A call
\* on an initialized store calls ResetAccess, which leaves the store's members
\* alone. The frame's name field notes the method of Contexts the call made.
InitCall(filename, dir, info, initOK, serialPA) ==
  /\ w.pc = "idle"
  /\ IF InitAgain
       THEN /\ UNCHANGED store
            /\ w' = [WCall("Init", <<"ResetAccess">>, <<>>, 0) EXCEPT
                       !.pc = "ret", !.ok = TRUE]
       ELSE IF filename.tooLong
         THEN /\ UNCHANGED store
              /\ w' = [WCall("Init", NoProp, <<>>, 0) EXCEPT
                         !.pc = "ret", !.ok = FALSE]
         ELSE /\ property_filename_' = filename.path
              /\ contexts_' = [kind |-> ContextsVariant(dir, info),
                               serial_pa |-> initOK /\ serialPA]
              /\ initialized_' = initOK
              /\ w' = [WCall("Init", <<"Initialize">>, <<>>, 0) EXCEPT
                         !.pc = "ret", !.ok = initOK]
  /\ c' = Disturb(c)
  /\ UNCHANGED <<shared, hist>>

\* AddRejects with the value length tested for every name, "ro." or not.
AddRejects_NoReadOnlyLong(name, namelen, valuelen, room) ==
  \/ valuelen >= PROP_VALUE_MAX
  \/ namelen < 1
  \/ ~initialized_
  \/ GetSerialPropArea = NoArea
  \/ GetPropAreaForName(name) = NoArea
  \/ ~room

\* The tests Add makes before it mutates anything; room is whether pa->add
\* finds room for the record in the area.
AddRejects(name, namelen, valuelen, room) ==
  \/ (valuelen >= PROP_VALUE_MAX /\ ~is_read_only(name))
  \/ namelen < 1
  \/ ~initialized_
  \/ GetSerialPropArea = NoArea
  \/ GetPropAreaForName(name) = NoArea
  \/ ~room

\* The frame of an Add call: its arguments, and what pa->add will find.
AddFrame(name, namelen, value, valuelen, room) ==
  [WCall("Add", name, value, valuelen) EXCEPT !.namelen = namelen, !.room = room]

\* AddCall with the area-serial stored before the result of pa->add is
\* tested.
AddCall_SerialFirst(name, namelen, value, valuelen, room) ==
  /\ w.pc = "idle"
  /\ w.calls < MaxCalls
  /\ pa_find(name) = NoProp
  /\ IF AddRejects(name, namelen, valuelen, TRUE)
       THEN /\ w' = [AddFrame(name, namelen, value, valuelen, room) EXCEPT
                       !.pc = "ret", !.ret = -1]
            /\ UNCHANGED <<props, hist, areaSerial>>
       ELSE IF ~room
         THEN /\ w' = [AddFrame(name, namelen, value, valuelen, room) EXCEPT
                         !.pc = "ret", !.ret = -1]
              /\ areaSerial' = areaSerial + 1
              /\ UNCHANGED <<props, hist>>
         ELSE /\ props' = [props EXCEPT ![name] = pa_add(value, valuelen)]
              /\ hist' = [hist EXCEPT ![name] =
                            <<<<pa_add(value, valuelen).serial,
                              SubSeq(value, 1, valuelen)>>>>]
              /\ w' = [AddFrame(name, namelen, value, valuelen, room) EXCEPT !.pc = "A_area"]
              /\ UNCHANGED areaSerial
  /\ c' = Disturb(c)
  /\ UNCHANGED <<store, backup>>

\* SystemProperties::Add up to and including pa->add.
AddCall(name, namelen, value, valuelen, room) ==
  /\ w.pc = "idle"
  /\ w.calls < MaxCalls
  /\ pa_find(name) = NoProp
  /\ IF AddRejects(name, namelen, valuelen, room)
       THEN /\ w' = [AddFrame(name, namelen, value, valuelen, room) EXCEPT
                       !.pc = "ret", !.ret = -1]
            /\ UNCHANGED <<props, hist>>
       ELSE /\ props' = [props EXCEPT ![name] = pa_add(value, valuelen)]
            /\ hist' = [hist EXCEPT ![name] =
                          <<<<pa_add(value, valuelen).serial,
                              SubSeq(value, 1, valuelen)>>>>]
            /\ w' = [AddFrame(name, namelen, value, valuelen, room) EXCEPT !.pc = "A_area"]
  /\ c' = Disturb(c)
  /\ UNCHANGED <<store, backup, areaSerial>>

\* BumpAreaSerial storing one less than the area-serial it loaded.
BumpAreaSerial_Down(next) ==
  /\ areaSerial' = areaSerial - 1
  /\ w' = [w EXCEPT !.pc = next]
  /\ UNCHANGED <<store, props, backup, c, hist>>

\* The store of the area-serial, one more than its load (the uint32_t wraps
\* after 2^32 stores, which MaxCalls keeps out of reach).
BumpAreaSerial(next) ==
  /\ areaSerial' = areaSerial + 1
  /\ w' = [w EXCEPT !.pc = next]
  /\ UNCHANGED <<store, props, backup, c, hist>>

\* WakeAreaAndReturn without the __futex_wake.
WakeAreaAndReturn_NoWake ==
  /\ w' = [w EXCEPT !.pc = "ret", !.ret = 0]
  /\ UNCHANGED <<store, shared, c, hist>>

\* __futex_wake(serial_pa->serial(), INT32_MAX); return 0.
WakeAreaAndReturn ==
  /\ c' = futex_wake(c, AreaAddr)
  /\ w' = [w EXCEPT !.pc = "ret", !.ret = 0]
  /\ UNCHANGED <<store, shared, hist>>

AddAreaSerial ==
  /\ w.pc = "A_area"
  /\ BumpAreaSerial("A_wake")

AddWake ==
  /\ w.pc = "A_wake"
  /\ WakeAreaAndReturn

\* The tests Update makes before it mutates anything.
UpdateRejects(pi, len) ==
  \/ len >= PROP_VALUE_MAX
  \/ ~initialized_
  \/ GetSerialPropArea = NoArea
  \/ GetPropAreaForName(pi) = NoArea

\* SystemProperties::Update up to the load of pi->serial.
UpdateCall(pi, value, len) ==
  /\ w.pc = "idle"
  /\ w.calls < MaxCalls
  /\ pa_find(pi) # NoProp
  /\ IF UpdateRejects(pi, len)
       THEN w' = [WCall("Update", pi, value, len) EXCEPT
                    !.pc = "ret", !.ret = -1]
       ELSE w' = [WCall("Update", pi, value, len) EXCEPT
                    !.pc = "U_backup", !.serial = props[pi].serial]
  /\ c' = Disturb(c)
  /\ UNCHANGED <<store, shared, hist>>

\* UpdateBackup as memcpy(..., old_len): the terminator is not copied.
UpdateBackup_NoTerminator ==
  /\ w.pc = "U_backup"
  /\ LET pa == GetPropAreaForName(w.name)
         old_len == SERIAL_VALUE_LEN(w.serial)
     IN  /\ backup' = IF w.i < old_len
                         THEN [backup EXCEPT ![pa] =
                                 BufPut(@, w.i + 1, BufGet(props[w.name].value, w.i + 1))]
                         ELSE backup
         /\ w' = IF w.i < old_len
                   THEN [w EXCEPT !.i = w.i + 1]
                   ELSE [w EXCEPT !.pc = "U_dirty", !.i = 0]
  /\ UNCHANGED <<store, props, areaSerial, c, hist>>

\* memcpy(pa->dirty_backup_area(), pi->value, old_len + 1), one byte.
UpdateBackup ==
  /\ w.pc = "U_backup"
  /\ LET pa == GetPropAreaForName(w.name)
         old_len == SERIAL_VALUE_LEN(w.serial)
     IN  /\ backup' = [backup EXCEPT ![pa] =
                        BufPut(@, w.i + 1, BufGet(props[w.name].value, w.i + 1))]
         /\ w' = IF w.i < old_len
                   THEN [w EXCEPT !.i = w.i + 1]
                   ELSE [w EXCEPT !.pc = "U_dirty", !.i = 0]
  /\ UNCHANGED <<store, props, areaSerial, c, hist>>

\* serial |= 1
DirtySerial(serial) == serial + (1 - SERIAL_DIRTY(serial))

\* UpdateDirty with the area-serial incremented here, before the new value
\* is stored.
UpdateDirty_AreaFirst ==
  /\ w.pc = "U_dirty"
  /\ props' = [props EXCEPT ![w.name].serial = DirtySerial(w.serial)]
  /\ areaSerial' = areaSerial + 1
  /\ w' = [w EXCEPT !.pc = "U_copy", !.serial = DirtySerial(w.serial)]
  /\ UNCHANGED <<store, backup, c, hist>>

\* serial |= 1; the store of the dirty serial.
UpdateDirty ==
  /\ w.pc = "U_dirty"
  /\ props' = [props EXCEPT ![w.name].serial = DirtySerial(w.serial)]
  /\ w' = [w EXCEPT !.pc = "U_copy", !.serial = DirtySerial(w.serial)]
  /\ UNCHANGED <<store, backup, areaSerial, c, hist>>

\* strlen(value) for the caller's NUL-terminated value.
strlen(value) == Len(value)

\* UpdateCopy as memcpy(pi->value, value, len): no terminator is written.
UpdateCopy_NoTerminator ==
  /\ w.pc = "U_copy"
  /\ LET n == Min(strlen(w.value), w.len)
     IN  IF w.i < n
           THEN /\ props' = [props EXCEPT ![w.name].value =
                                 BufPut(@, w.i + 1, w.value[w.i + 1])]
                /\ w' = [w EXCEPT !.i = w.i + 1]
           ELSE /\ props' = props
                /\ w' = [w EXCEPT !.pc = "U_clean", !.i = 0]
  /\ UNCHANGED <<store, backup, areaSerial, c, hist>>

\* strlcpy(pi->value, value, len + 1), one byte: the bytes of value up to
\* len of them, then the terminator.
UpdateCopy ==
  /\ w.pc = "U_copy"
  /\ LET n == Min(strlen(w.value), w.len)
     IN  IF w.i < n
           THEN /\ props' = [props EXCEPT ![w.name].value =
                                 BufPut(@, w.i + 1, w.value[w.i + 1])]
                /\ w' = [w EXCEPT !.i = w.i + 1]
           ELSE /\ props' = [props EXCEPT ![w.name].value = BufPut(@, n + 1, 0)]
                /\ w' = [w EXCEPT !.pc = "U_clean", !.i = 0]
  /\ UNCHANGED <<store, backup, areaSerial, c, hist>>

\* CleanSerial without the & 0xffffff: the counter carries into the length.
CleanSerial_NoMask(len, serial) == Shl24(len) + ((serial % 16777216) + 1)

\* CleanSerial without the + 1: the dirty bit stays set.
CleanSerial_StillDirty(len, serial) == Shl24(len) + (serial % 16777216)

\* (len << 24) | ((serial + 1) & 0xffffff)
CleanSerial(len, serial) == Shl24(len) + ((serial + 1) % 16777216)

\* The store of the clean serial of the new value.
UpdateClean ==
  /\ w.pc = "U_clean"
  /\ props' = [props EXCEPT ![w.name].serial = CleanSerial(w.len, w.serial)]
  /\ hist' = [hist EXCEPT ![w.name] =
                Append(@, <<CleanSerial(w.len, w.serial),
                            SubSeq(w.value, 1, Min(strlen(w.value), w.len))>>)]
  /\ w' = [w EXCEPT !.pc = "U_wake"]
  /\ UNCHANGED <<store, backup, areaSerial, c>>

\* __futex_wake(&pi->serial, INT32_MAX)
UpdateWake ==
  /\ w.pc = "U_wake"
  /\ c' = futex_wake(c, w.name)
  /\ w' = [w EXCEPT !.pc = "U_area"]
  /\ UNCHANGED <<store, shared, hist>>

UpdateAreaSerial ==
  /\ w.pc = "U_area"
  /\ BumpAreaSerial("U_wake_area")

UpdateWakeArea ==
  /\ w.pc = "U_wake_area"
  /\ WakeAreaAndReturn

\* The writer's call has returned; it is free to make the next.
WriterReturn ==
  /\ w.pc = "ret"
  /\ w' = [WIdle EXCEPT !.calls = w.calls + (IF w.op \in {"Add", "Update"} THEN 1 ELSE 0)]
  /\ UNCHANGED <<store, shared, c, hist>>

\* ----------------------------------------------------------------- clients

CCall(op, name, pi) ==
  [CIdle EXCEPT !.op = op, !.name = name, !.pi = pi,
                !.quiet = (w.pc \in {"idle", "ret"})]

\* SystemProperties::Find
Find(name) ==
  IF ~initialized_ THEN NoProp
  ELSE IF GetPropAreaForName(name) = NoArea THEN NoProp
  ELSE pa_find(name)

FindCall(k, name) ==
  /\ c[k].pc = "idle"
  /\ c' = [c EXCEPT ![k] = [CCall("Find", name, Find(name)) EXCEPT !.pc = "done"]]
  /\ UNCHANGED <<store, shared, w, hist>>

\* ReadMutablePropertyValue's first load of pi->serial: the frame of a call
\* that has made it.
FirstLoad(frame) ==
  [frame EXCEPT !.pc = "R_copy", !.new_serial = props[frame.pi].serial,
                !.serial = props[frame.pi].serial, !.i = 0,
                !.atcall = props[frame.pi].serial]

\* GetNotFound without value[0] = 0.
GetNotFound_NoWrite(frame) == [frame EXCEPT !.pc = "done", !.ret = 0]

\* SystemProperties::Get: Find, then Read(pi, nullptr, value) or the empty
\* string.
GetNotFound(frame) == [frame EXCEPT !.pc = "done", !.value = BufPut(@, 1, 0), !.ret = 0]

GetCall(k, name) ==
  /\ c[k].pc = "idle"
  /\ c' = [c EXCEPT ![k] =
             IF Find(name) # NoProp
               THEN FirstLoad(CCall("Get", name, Find(name)))
               ELSE GetNotFound(CCall("Get", name, NoProp))]
  /\ UNCHANGED <<store, shared, w, hist>>

\* SystemProperties::Read on a record an earlier Find returned.
ReadCall(k, pi) ==
  /\ c[k].pc = "idle"
  /\ pa_find(pi) # NoProp
  /\ c' = [c EXCEPT ![k] = FirstLoad(CCall("Read", pi, pi))]
  /\ UNCHANGED <<store, shared, w, hist>>

\* The buffer ReadMutablePropertyValue copies from for a serial.
ReadSource(pi, serial) ==
  IF SERIAL_DIRTY(serial) = 1
    THEN backup[GetPropAreaForName(pi)]
    ELSE props[pi].value

\* memcpy(value, source, len + 1), one byte.
ReadCopy(k) ==
  /\ c[k].pc = "R_copy"
  /\ LET f == c[k]
         len == SERIAL_VALUE_LEN(f.serial)
     IN  c' = [c EXCEPT ![k] =
                 [f EXCEPT !.value = BufPut(@, f.i + 1,
                                       BufGet(ReadSource(f.pi, f.serial), f.i + 1)),
                           !.i = IF f.i < len THEN f.i + 1 ELSE 0,
                           !.pc = IF f.i < len THEN "R_copy" ELSE "R_reload"]]
  /\ UNCHANGED <<store, shared, w, hist>>

\* InUidRange without the upper ends of the ranges.
InUidRange_NoUpperEnd(uid) == uid >= 10000

\* (uid >= 10000 && uid <= 19999) || (uid >= 90000 && uid <= 99999)
InUidRange(uid) ==
  \/ uid >= 10000 /\ uid <= 19999
  \/ uid >= 90000 /\ uid <= 99999

\* The lambda of ReadCallback: what it passes to callback2 for a caller of
\* that uid. strcmp(name, s) == 0 is name = s.
callback(uid, name, value, serial) ==
  IF InUidRange(uid) /\ name = N_adbd
    THEN <<name, S_stopped, serial>>
  ELSE IF InUidRange(uid) /\ name = N_configfs
    THEN <<name, S_0, serial>>
  ELSE IF /\ InUidRange(uid)
          /\ \/ name = N_persist_usb_config
             \/ name = N_usb_config
             \/ name = N_usb_state
    THEN <<name, S_none, serial>>
  ELSE <<name, value, serial>>

\* prop_info::is_long
is_long(pi) == "long_value" \in DOMAIN props[pi]

\* SystemProperties::ReadCallback on a record an earlier Find returned, by
\* a caller for which getuid() is uid. A read-only record is read in place
\* with one load of its serial; any other through ReadMutablePropertyValue
\* into value_buf.
ReadCallbackCall(k, pi, uid) ==
  /\ c[k].pc = "idle"
  /\ pa_find(pi) # NoProp
  /\ LET f == [CCall("ReadCallback", pi, pi) EXCEPT !.uid = uid]
         serial == props[pi].serial
     IN  c' = [c EXCEPT ![k] =
                 IF is_read_only(pi)
                   THEN [f EXCEPT
                           !.pc = "done", !.serial = serial,
                           !.cb = callback(uid, pi,
                                           IF is_long(pi)
                                             THEN props[pi].long_value
                                             ELSE CStr(props[pi].value),
                                           serial)]
                   ELSE FirstLoad(f)]
  /\ UNCHANGED <<store, shared, w, hist>>

\* ReadDone that never holds: the loop goes round for ever.
ReadDone_Never(serial, new_serial) == FALSE

\* ReadDone without the comparison: the copy is returned unchecked.
ReadDone_Unchecked(serial, new_serial) == TRUE

\* Whether the loop of ReadMutablePropertyValue ends.
ReadDone(serial, new_serial) == serial = new_serial

\* The reload of pi->serial and the test that ends the loop; Read returns
\* SERIAL_VALUE_LEN(serial), ReadCallback calls the callback with value_buf.
ReadReload(k) ==
  /\ c[k].pc = "R_reload"
  /\ LET f == c[k]
         new_serial == props[f.pi].serial
     IN  c' = [c EXCEPT ![k] =
                 IF ReadDone(f.serial, new_serial)
                   THEN [f EXCEPT !.pc = "done", !.new_serial = new_serial,
                                  !.ret = SERIAL_VALUE_LEN(f.serial),
                                  !.cb = IF f.op = "ReadCallback"
                                           THEN callback(f.uid, f.pi,
                                                         CStr(f.value), f.serial)
                                           ELSE f.cb]
                   ELSE [f EXCEPT !.pc = "R_copy", !.new_serial = new_serial,
                                  !.serial = new_serial, !.i = 0]]
  /\ UNCHANGED <<store, shared, w, hist>>

\* The Adds and Updates of name whose increment of the area-serial has been
\* stored: its epochs, less the one of a call that has not reached its store
\* of the area-serial.
Published(n) ==
  Len(hist[n]) -
    (IF w.name = n /\ w.pc \in {"A_area", "U_wake", "U_area"} THEN 1 ELSE 0)

\* SystemProperties::AreaSerial; (uint32_t)-1 is written -1. The frame
\* notes which calls the loaded area-serial counts.
AreaSerialCall(k) ==
  /\ c[k].pc = "idle"
  /\ c' = [c EXCEPT ![k] =
             [CCall("AreaSerial", <<>>, NoProp) EXCEPT
                !.pc = "done",
                !.ret = IF ~initialized_ \/ GetSerialPropArea = NoArea
                          THEN -1 ELSE areaSerial,
                !.seen = [n \in Names |-> Published(n)]]]
  /\ UNCHANGED <<store, shared, w, hist>>

\* Get(name) by a caller to which AreaSerial has just returned.
GetSeenCall(k, name) ==
  /\ c[k].pc = "done"
  /\ c[k].op = "AreaSerial"
  /\ c' = [c EXCEPT ![k] =
             IF Find(name) # NoProp
               THEN [FirstLoad(CCall("Get", name, Find(name))) EXCEPT
                       !.seen = c[k].seen]
               ELSE [GetNotFound(CCall("Get", name, NoProp)) EXCEPT
                       !.seen = c[k].seen]]
  /\ UNCHANGED <<store, shared, w, hist>>

\* SystemProperties::Foreach
ForeachCall(k) ==
  /\ c[k].pc = "idle"
  /\ c' = [c EXCEPT ![k] =
             [CCall("Foreach", <<>>, NoProp) EXCEPT
                !.pc = "done", !.ret = IF ~initialized_ THEN -1 ELSE 0]]
  /\ UNCHANGED <<store, shared, w, hist>>

\* The word a futex address holds.
Load(addr) == IF addr = AreaAddr THEN areaSerial ELSE props[addr].serial

\* SystemProperties::Wait up to the choice of serial_ptr. pi is a record an
\* earlier Find returned, or nullptr; a bool function's "return -1" returns
\* true, and *new_serial_ptr is not written.
WaitCall(k, pi, old_serial, tmo) ==
  /\ c[k].pc = "idle"
  /\ pi # NoProp => pa_find(pi) # NoProp
  /\ LET f == [CCall("Wait", <<>>, pi) EXCEPT !.old = old_serial, !.tmo = tmo]
     IN  c' = [c EXCEPT ![k] =
                 IF pi = NoProp
                   THEN IF ~initialized_ \/ GetSerialPropArea = NoArea
                          THEN [f EXCEPT !.pc = "done", !.ok = TRUE]
                          ELSE [f EXCEPT !.pc = "W_futex", !.addr = AreaAddr,
                                         !.atcall = areaSerial]
                   ELSE [f EXCEPT !.pc = "W_futex", !.addr = pi,
                                  !.atcall = props[pi].serial]]
  /\ UNCHANGED <<store, shared, w, hist>>

\* What an uninitialized uint32_t local can hold.
Indeterminate == {0, 7}

\* SystemProperties::WaitAny: Wait(nullptr, old_serial, &new_serial, nullptr)
\* with new_serial an uninitialized local, which the call then returns. junk
\* is what that local holds before Wait writes it.
WaitAnyCall(k, old_serial, junk) ==
  /\ c[k].pc = "idle"
  /\ LET f == [CCall("WaitAny", <<>>, NoProp) EXCEPT
                 !.old = old_serial, !.tmo = FALSE, !.new_serial = junk]
     IN  c' = [c EXCEPT ![k] =
                 IF ~initialized_ \/ GetSerialPropArea = NoArea
                   THEN [f EXCEPT !.pc = "done", !.ok = TRUE, !.ret = junk]
                   ELSE [f EXCEPT !.pc = "W_futex", !.addr = AreaAddr,
                                  !.atcall = areaSerial]]
  /\ UNCHANGED <<store, shared, w, hist>>

\* __futex_wait(serial_ptr, old_serial, relative_timeout): the thread sleeps
\* if the word is old_serial, and returns at once if it is not.
WaitFutex(k) ==
  /\ c[k].pc = "W_futex"
  /\ c' = [c EXCEPT ![k].pc =
             IF Load(c[k].addr) = c[k].old THEN "W_sleep" ELSE "W_load"]
  /\ UNCHANGED <<store, shared, w, hist>>

\* A sleeping thread wakes with no __futex_wake (a signal).
WaitSpurious(k) ==
  /\ c[k].pc = "W_sleep"
  /\ c' = [c EXCEPT ![k].pc = "W_load"]
  /\ UNCHANGED <<store, shared, w, hist>>

\* WaitTimeout with the timeout taken for a wake-up: Wait returns true.
WaitTimeout_ReturnsTrue(k) ==
  /\ c[k].pc = "W_sleep"
  /\ c[k].tmo
  /\ c' = [c EXCEPT ![k].pc = "done", ![k].ok = TRUE]
  /\ UNCHANGED <<store, shared, w, hist>>

\* __futex_wait returns -ETIMEDOUT: Wait returns false.
WaitTimeout(k) ==
  /\ c[k].pc = "W_sleep"
  /\ c[k].tmo
  /\ c' = [c EXCEPT ![k].pc = "done", ![k].ok = FALSE]
  /\ UNCHANGED <<store, shared, w, hist>>

\* WaitAgain without the comparison: any wake-up ends the wait.
WaitAgain_Never(new_serial, old_serial) == FALSE

\* Whether Wait's loop goes round again.
WaitAgain(new_serial, old_serial) == new_serial = old_serial

\* new_serial = load(serial_ptr); while (new_serial == old_serial).
WaitLoad(k) ==
  /\ c[k].pc = "W_load"
  /\ LET f == c[k]
         new_serial == Load(f.addr)
     IN  c' = [c EXCEPT ![k] =
                 IF WaitAgain(new_serial, f.old)
                   THEN [f EXCEPT !.pc = "W_futex", !.new_serial = new_serial]
                   ELSE [f EXCEPT !.pc = "done", !.new_serial = new_serial,
                                  !.written = TRUE, !.ok = TRUE,
                                  !.ret = IF f.op = "WaitAny" THEN new_serial
                                          ELSE f.ret]]
  /\ UNCHANGED <<store, shared, w, hist>>

\* The client's call has returned; it is free to make the next.
ClientReturn(k) ==
  /\ c[k].pc = "done"
  /\ c' = [c EXCEPT ![k] = CIdle]
  /\ UNCHANGED <<store, shared, w, hist>>

\* ------------------------------------------------------------ specification

\* The calls of the writer, for the names and values a specification draws.
\* WriterAdd draws no long value for a read-only name (WriterAddAny does):
\* the record of one is read by no client of the specifications that use it.
WriterAreaInit ==
  \E f \in {F_dir, F_long}, ok \in BOOLEAN, spa \in BOOLEAN : AreaInit(f, ok, spa)

WriterAdd(names, values) ==
  \E n \in names, v \in values, room \in BOOLEAN :
    /\ ~(is_read_only(n) /\ strlen(v) >= PROP_VALUE_MAX)
    /\ AddCall(n, Len(n), v, strlen(v), room)

WriterUpdate(names, values) ==
  \E n \in names, v \in values : UpdateCall(n, v, strlen(v))

WriterSteps ==
  \/ AddAreaSerial
  \/ AddWake
  \/ UpdateBackup
  \/ UpdateDirty
  \/ UpdateCopy
  \/ UpdateClean
  \/ UpdateWake
  \/ UpdateAreaSerial
  \/ UpdateWakeArea
  \/ WriterReturn

\* The steps of an Update after its call.
UpdateSteps ==
  \/ UpdateBackup
  \/ UpdateDirty
  \/ UpdateCopy
  \/ UpdateClean
  \/ UpdateWake
  \/ UpdateAreaSerial
  \/ UpdateWakeArea
  \/ WriterReturn

ReadSteps(k) ==
  \/ ReadCopy(k)
  \/ ReadReload(k)
  \/ ClientReturn(k)

\* Wait is called with the serial the caller read last: the word's value
\* now, or an older one.
WaitCalls(k, pis) ==
  \E pi \in pis, tmo \in BOOLEAN :
    \E old \in {0} \cup (IF pi = NoProp THEN {areaSerial}
                         ELSE IF pa_find(pi) # NoProp THEN {props[pi].serial}
                         ELSE {}) :
      WaitCall(k, pi, old, tmo)

WaitSteps(k) ==
  \/ WaitFutex(k)
  \/ WaitLoad(k)

WaitEnv(k) ==
  \/ WaitSpurious(k)
  \/ WaitTimeout(k)

\* Every operation, from the store as constructed.
Next ==
  \/ WriterAreaInit
  \/ WriterAdd({N_ab, N_rox, N_deny, N_empty}, {V_A, V_BB, V_long})
  \/ WriterUpdate({N_ab, N_rox}, {V_A, V_BB, V_long})
  \/ WriterSteps
  \/ \E k \in Clients :
       \/ \E n \in {N_ab, N_rox, N_deny} : FindCall(k, n)
       \/ \E n \in {N_ab, N_rox, N_deny} : GetCall(k, n)
       \/ \E n \in {N_ab, N_rox} : ReadCall(k, n)
       \/ ForeachCall(k)
       \/ ReadSteps(k)
       \/ WaitCalls(k, {N_ab, NoProp})
       \/ WaitSteps(k)
       \/ WaitEnv(k)

Spec == Init /\ [][Next]_vars

\* The store after AreaInit("/dev/__properties__") and Add("a.b", "BB")
\* have returned true and 0.
InitAdded ==
  /\ initialized_ = TRUE
  /\ contexts_ = [kind |-> "ContextsSerialized", serial_pa |-> TRUE]
  /\ property_filename_ = F_dir.path
  /\ props = [n \in Names |-> IF n = N_ab THEN NewProp(V_BB, 2) ELSE AbsentProp]
  /\ backup = [a \in Areas |-> ZeroBuf]
  /\ areaSerial = 1
  /\ w = WIdle
  /\ c = [k \in Clients |-> CIdle]
  /\ hist = [n \in Names |-> IF n = N_ab THEN <<<<Shl24(2), V_BB>>>> ELSE <<>>]

\* One writer, and readers of the two records of one area.
NextRead ==
  \/ WriterAdd({N_ac}, {V_A})
  \/ WriterUpdate({N_ab, N_ac}, {V_A, V_BB, V_CC})
  \/ WriterSteps
  \/ \E k \in Clients :
       \/ \E n \in {N_ab} : ReadCall(k, n)
       \/ ReadSteps(k)

SpecRead == InitAdded /\ [][NextRead]_vars

\* One writer, and waiters on a record's serial and on the area-serial.
NextWait ==
  \/ WriterAdd({N_ac}, {V_A})
  \/ WriterUpdate({N_ab}, {V_A, V_BB})
  \/ WriterSteps
  \/ \E k \in Clients :
       \/ WaitCalls(k, {N_ab, NoProp})
       \/ WaitSteps(k)
       \/ WaitEnv(k)
       \/ ClientReturn(k)

SpecWait == InitAdded /\ [][NextWait]_vars

\* The threads are scheduled fairly: a thread that can take its next step
\* takes it. Nothing makes a caller call, a signal arrive or a timeout end.
Fairness ==
  /\ WF_vars(WriterSteps)
  /\ \A k \in Clients : WF_vars(WaitSteps(k))

LiveWait == SpecWait /\ Fairness

\* The calls that return, and the steps that end, an Add.
AddSteps ==
  \/ AddAreaSerial
  \/ AddWake
  \/ WriterReturn

\* Add with the name length and the value length of every kind: namelen 0
\* or strlen(name), valuelen up to PROP_VALUE_MAX.
WriterAddAny(names, values) ==
  \E n \in names, nl \in {0, 1}, v \in values, room \in BOOLEAN :
    AddCall(n, nl * Len(n), v, strlen(v), room)

\* The store after AreaInit("/dev/__properties__") has returned true.
InitReady ==
  /\ initialized_ = TRUE
  /\ contexts_ = [kind |-> "ContextsSerialized", serial_pa |-> TRUE]
  /\ property_filename_ = F_dir.path
  /\ props = [n \in Names |-> AbsentProp]
  /\ backup = [a \in Areas |-> ZeroBuf]
  /\ areaSerial = 0
  /\ w = WIdle
  /\ c = [k \in Clients |-> CIdle]
  /\ hist = [n \in Names |-> <<>>]

\* Add on an initialized store, beside Find.
NextAdd ==
  \/ WriterAddAny({N_ab, N_rox, N_deny}, {V_A, V_91, V_long})
  \/ AddSteps
  \/ \E k \in Clients :
       \/ \E n \in {N_ab, N_rox} : FindCall(k, n)
       \/ ClientReturn(k)

SpecAdd == InitReady /\ [][NextAdd]_vars

\* The store from its construction: Init and AreaInit, and the calls made
\* of a store that may not be initialized.
WriterInit ==
  \E f \in {F_dir, F_file, F_long}, dir \in BOOLEAN, info \in BOOLEAN,
     ok \in BOOLEAN, spa \in BOOLEAN :
    InitCall(f, dir, info, ok, spa)

NextStore ==
  \/ WriterInit
  \/ WriterAreaInit
  \/ WriterAdd({N_ab}, {V_A})
  \/ AddSteps
  \/ \E k \in Clients :
       \/ \E n \in {N_ab} : FindCall(k, n)
       \/ ForeachCall(k)
       \/ WaitCalls(k, {NoProp})
       \/ \E junk \in Indeterminate : WaitAnyCall(k, areaSerial, junk)
       \/ WaitSteps(k)
       \/ WaitEnv(k)
       \/ ClientReturn(k)

SpecStore == Init /\ [][NextStore]_vars

\* The store after AreaInit and Add("a.b", "BB") returned, and then either
\* no Update of a.b or 2^23 - 1 of them with "BB": the 24 low bits of the
\* record's serial are 0 or 0xfffffe.
InitUpdated ==
  /\ initialized_ = TRUE
  /\ contexts_ = [kind |-> "ContextsSerialized", serial_pa |-> TRUE]
  /\ property_filename_ = F_dir.path
  /\ \E low \in {0, 16777214} :
       /\ props = [n \in Names |->
                     IF n = N_ab
                       THEN [NewProp(V_BB, 2) EXCEPT !.serial = Shl24(2) + low]
                       ELSE AbsentProp]
       /\ hist = [n \in Names |->
                    IF n = N_ab THEN <<<<Shl24(2) + low, V_BB>>>> ELSE <<>>]
  /\ backup = [a \in Areas |-> ZeroBuf]
  /\ areaSerial = 1
  /\ w = WIdle
  /\ c = [k \in Clients |-> CIdle]

\* Update with a length that is, or is not, the length of the value.
WriterUpdateLen(names, values, lens) ==
  \E n \in names, v \in values, len \in lens : UpdateCall(n, v, len)

\* One writer: Add, and Update(pi, value, len) with value and len drawn
\* apart.
NextUpdate ==
  \/ WriterAdd({N_ac}, {V_A})
  \/ WriterUpdateLen({N_ab, N_ac}, {V_A, V_BB}, {1, 2})
  \/ WriterSteps

SpecUpdate == InitUpdated /\ [][NextUpdate]_vars

\* One writer, a reader that loads the area-serial and then gets a
\* property, and a waiter on a record.
NextOrder ==
  \/ WriterAdd({N_ac}, {V_A})
  \/ WriterUpdate({N_ab}, {V_A, V_BB})
  \/ WriterSteps
  \/ \E k \in Clients :
       \/ AreaSerialCall(k)
       \/ \E n \in {N_ab, N_ac} : GetSeenCall(k, n)
       \/ ReadSteps(k)
       \/ WaitCalls(k, {N_ab})
       \/ WaitSteps(k)
       \/ WaitEnv(k)

SpecOrder == InitAdded /\ [][NextOrder]_vars

\* The uids callers have: the ends of the two ranges and their neighbours.
Uids == {0, 9999, 10000, 19999, 20000, 89999, 90000, 99999, 100000}

\* The store after AreaInit and the Adds of a.b = "BB", ro.x = "A" and the
\* five names of UsbNames, each with "A", have returned true and 0.
InitUsb ==
  /\ initialized_ = TRUE
  /\ contexts_ = [kind |-> "ContextsSerialized", serial_pa |-> TRUE]
  /\ property_filename_ = F_dir.path
  /\ props = [n \in Names \cup UsbNames |->
                IF n = N_ab THEN NewProp(V_BB, 2)
                ELSE IF n = N_ac THEN AbsentProp
                ELSE NewProp(V_A, 1)]
  /\ hist = [n \in Names \cup UsbNames |->
               IF n = N_ab THEN <<<<Shl24(2), V_BB>>>>
               ELSE IF n = N_ac THEN <<>>
               ELSE <<<<Shl24(1), V_A>>>>]
  /\ backup = [a \in Areas |-> ZeroBuf]
  /\ areaSerial = 7
  /\ w = WIdle
  /\ c = [k \in Clients |-> CIdle]

\* One writer that updates the stored values, and callers of every uid that
\* read through ReadCallback, Read and Get.
NextCallback ==
  \/ WriterUpdate({N_usb_state, N_ab}, {V_BB})
  \/ UpdateSteps
  \/ \E k \in Clients :
       \/ \E n \in UsbNames \cup {N_ab, N_rox}, uid \in Uids :
            ReadCallbackCall(k, n, uid)
       \/ \E n \in UsbNames : ReadCall(k, n)
       \/ \E n \in UsbNames : GetCall(k, n)
       \/ ReadSteps(k)

SpecCallback == InitUsb /\ [][NextCallback]_vars

\* The steps of the loop of ReadMutablePropertyValue.
ReadLoop(k) ==
  \/ ReadCopy(k)
  \/ ReadReload(k)

\* One writer that updates a record, at most MaxCalls times, and readers of
\* that record.
NextLoop ==
  \/ WriterUpdate({N_ab}, {V_A, V_BB})
  \/ UpdateSteps
  \/ \E k \in Clients :
       \/ ReadCall(k, N_ab)
       \/ ReadLoop(k)
       \/ ClientReturn(k)

SpecLoop == InitAdded /\ [][NextLoop]_vars

\* The writer and the readers are scheduled fairly: a started Update runs to
\* its end, a reader in its loop takes its next step. Nothing makes a caller
\* call.
FairnessRead ==
  /\ WF_vars(UpdateSteps)
  /\ \A k \in Clients : WF_vars(ReadLoop(k))

LiveRead == SpecLoop /\ FairnessRead

\* ------------------------------------------------------------------ claims

\* A client whose Read or Get of a record that is not read-only has returned.
ReadReturned(k) ==
  /\ c[k].pc = "done"
  /\ c[k].op \in {"Read", "Get"}
  /\ c[k].pi # NoProp
  /\ ~is_read_only(c[k].pi)

\* The value of the record's epoch that serial names: the value stored with
\* the clean serial, which a dirty serial names too.
IsEpoch(n, serial, v) ==
  \E j \in 1..Len(hist[n]) :
    /\ hist[n][j][1] = serial - SERIAL_DIRTY(serial)
    /\ hist[n][j][2] = v

\* C1: under one writer and concurrent readers, a read that returns serial
\* s has copied exactly one complete value the record held, the value of the
\* epoch s names, never a mix of two, and s >> 24 is that value's length.
C1_ReadIsOneEpoch ==
  \A k \in Clients :
    ReadReturned(k) =>
      /\ IsEpoch(c[k].pi, c[k].serial, CStr(c[k].value))
      /\ SERIAL_VALUE_LEN(c[k].serial) = Len(CStr(c[k].value))

\* A read that ran beside Updates, went round its loop again and returned
\* the value of a later epoch than the one it first loaded.
C1_Witness ==
  \E k \in Clients :
    /\ ReadReturned(k)
    /\ ~c[k].quiet
    /\ c[k].serial # c[k].atcall
    /\ CStr(c[k].value) = V_A

\* C2 as stated: every ReadMutablePropertyValue returns a serial whose dirty
\* bit is 0, also beside an Update of the record.
C2_ReturnsCleanSerial ==
  \A k \in Clients : ReadReturned(k) => SERIAL_DIRTY(c[k].serial) = 0

\* C2 amended: the serial a read returns is the record's serial at the
\* read's last load, and its dirty bit is set only if the writer is then
\* between Update's store of the dirty serial and its store of the clean one,
\* on that record.
C2_DirtyOnlyInsideUpdate ==
  [][\A k \in Clients :
       (c[k].pc = "R_reload" /\ c'[k].pc = "done") =>
         /\ c'[k].serial = props[c[k].pi].serial
         /\ SERIAL_DIRTY(c'[k].serial) = 1 =>
              (w.pc \in {"U_copy", "U_clean"} /\ w.name = c[k].pi)]_vars

\* A read that returned a dirty serial, with the value from before the Update.
C2_Witness ==
  \E k \in Clients :
    /\ ReadReturned(k)
    /\ SERIAL_DIRTY(c[k].serial) = 1
    /\ CStr(c[k].value) = V_BB

\* A client inside Wait(nullptr, s0, ...) whose s0 was the area-serial when
\* it called.
WaitingOnArea(k) ==
  /\ c[k].pc \in {"W_futex", "W_sleep", "W_load"}
  /\ c[k].addr = AreaAddr
  /\ c[k].old = c[k].atcall

\* C3: no lost wake-up on the area-serial: a thread in WaitAny(s0) /
\* Wait(nullptr, s0, ...), s0 the area-serial at its call, returns true with
\* a serial other than s0 once the writer has completed an Add or Update that
\* returned 0 since (a Wait with a timeout may time out instead).
C3_NoLostWakeup ==
  \A k \in Clients :
    (/\ WaitingOnArea(k)
     /\ areaSerial # c[k].old
     /\ w.pc = "ret" /\ w.op \in {"Add", "Update"} /\ w.ret = 0)
    ~> (/\ c[k].pc = "done"
        /\ \/ c[k].ok /\ c[k].written /\ c[k].new_serial # c[k].old
           \/ c[k].tmo /\ ~c[k].ok)

\* The waiter is asleep on the area-serial, the writer has stored the new
\* area-serial and is about to wake the waiters.
C3_Witness ==
  \E k \in Clients :
    /\ WaitingOnArea(k)
    /\ c[k].pc = "W_sleep"
    /\ ~c[k].tmo
    /\ areaSerial # c[k].old
    /\ w.pc \in {"A_wake", "U_wake_area"}

\* Wait(pi, s0, ...) has returned true, s0 the clean serial of the record
\* when it was called.
WaitOnRecordReturned(k) ==
  /\ c[k].pc = "done"
  /\ c[k].op = "Wait"
  /\ c[k].pi # NoProp
  /\ c[k].ok /\ c[k].written
  /\ c[k].old = c[k].atcall
  /\ SERIAL_DIRTY(c[k].old) = 0

\* C4 as stated: the serial Wait(pi, s0) reports after an Update of pi began
\* is strictly greater than s0, whatever the old and new lengths.
C4_NewSerialGreater ==
  \A k \in Clients : WaitOnRecordReturned(k) => c[k].new_serial > c[k].old

\* C4 amended: the serial Wait(pi, s0) reports differs from s0.
C4_NewSerialDiffers ==
  \A k \in Clients : WaitOnRecordReturned(k) => c[k].new_serial # c[k].old

\* Wait returned a serial smaller than s0: the Update stored a shorter value.
C4_Witness ==
  \E k \in Clients :
    /\ WaitOnRecordReturned(k)
    /\ c[k].new_serial < c[k].old
    /\ SERIAL_VALUE_LEN(c[k].new_serial) < SERIAL_VALUE_LEN(c[k].old)

\* C5: Update on the record of a read-only ("ro.") name returns -1 (and so
\* leaves the record as it was).
C5_ReadOnlyUpdateFails ==
  (w.pc = "ret" /\ w.op = "Update" /\ is_read_only(w.name)) => w.ret = -1

\* C6: the serial of a read-only record stays the serial it was created
\* with, dirty bit 0, whatever Adds and Updates follow.
C6_ReadOnlySerialFixed ==
  \A n \in Names :
    (is_read_only(n) /\ props[n].present) =>
      /\ props[n].serial = hist[n][1][1]
      /\ SERIAL_DIRTY(props[n].serial) = 0

\* C7: the area-serial never decreases, is greater after an Add or Update
\* that returns 0 than when it was called, is what it was when an Add or
\* Update that returns -1 (or AreaInit) was called, and no step of a client
\* (Find, Get, Read, Wait, Foreach) changes it.
C7_AreaSerialMonotone ==
  [][/\ areaSerial' >= areaSerial
     /\ (w.pc # "ret" /\ w'.pc = "ret") =>
          IF w'.op \in {"Add", "Update"} /\ w'.ret = 0
            THEN areaSerial' > w'.area0
            ELSE areaSerial' = w'.area0
     /\ w' = w => areaSerial' = areaSerial]_vars

\* An Update has returned 0 after an earlier successful call.
C7_Witness ==
  /\ w.pc = "ret" /\ w.op = "Update" /\ w.ret = 0
  /\ w.area0 >= 1
  /\ areaSerial = w.area0 + 1

\* C8: with no writer activity since the Read was called, Read of a record
\* Update has stored v' in returns len(v') and has written the bytes of v',
\* a terminator and nothing else, also when v' is shorter than the value
\* before it.
C8_ReadAfterUpdate ==
  \A k \in Clients :
    (ReadReturned(k) /\ c[k].op = "Read" /\ c[k].quiet /\ Len(hist[c[k].pi]) >= 2) =>
      LET v == hist[c[k].pi][Len(hist[c[k].pi])][2]
      IN  /\ c[k].ret = Len(v)
          /\ \A j \in 1..PROP_VALUE_MAX :
               BufGet(c[k].value, j) =
                 IF j <= Len(v) THEN v[j]
                 ELSE IF j = Len(v) + 1 THEN 0
                 ELSE BufGet(GarbageBuf, j)

\* A quiet Read of "A" that Update stored over "BB".
C8_Witness ==
  \E k \in Clients :
    /\ ReadReturned(k) /\ c[k].op = "Read" /\ c[k].quiet
    /\ Len(hist[c[k].pi]) >= 2
    /\ hist[c[k].pi][Len(hist[c[k].pi]) - 1][2] = V_BB
    /\ CStr(c[k].value) = V_A
    /\ c[k].ret = 1

\* C9: with no writer activity since it was called, Get(name, value) returns
\* 0 and the empty string when the store is uninitialized, the router denies
\* the name or no record has it, and returns (len(v), v) for a mutable name
\* that Add created with v and no Update changed.
C9_Get ==
  \A k \in Clients :
    (c[k].pc = "done" /\ c[k].op = "Get" /\ c[k].quiet) =>
      LET n == c[k].name
      IN  IF ~initialized_ \/ GetPropAreaForName(n) = NoArea \/ pa_find(n) = NoProp
            THEN c[k].ret = 0 /\ CStr(c[k].value) = <<>> /\ c[k].pi = NoProp
            ELSE /\ c[k].pi = n
                 /\ (~is_read_only(n) /\ Len(hist[n]) = 1) =>
                      /\ c[k].ret = Len(hist[n][1][2])
                      /\ CStr(c[k].value) = hist[n][1][2]

\* Get returned (2, "BB") for the name Add created with "BB".
C9_Witness ==
  \E k \in Clients :
    /\ c[k].pc = "done" /\ c[k].op = "Get" /\ c[k].quiet
    /\ c[k].name = N_ab
    /\ Len(hist[N_ab]) = 1
    /\ c[k].ret = 2
    /\ CStr(c[k].value) = V_BB

\* C10: an Add or Update that returns -1 returns from its tests, before any
\* store: every record's serial and value, every dirty-backup buffer and the
\* area-serial are as they were, and no waiter is woken.
C10_FailedCallChangesNothing ==
  [][(/\ w.pc # "ret" /\ w'.pc = "ret"
      /\ w'.op \in {"Add", "Update"}
      /\ w'.ret = -1) =>
       /\ w.pc = "idle"
       /\ UNCHANGED <<props, backup, areaSerial>>
       /\ \A k \in Clients : c'[k].pc = c[k].pc]_vars

\* An Update has returned -1 while a waiter sleeps on the record.
C10_Witness ==
  /\ w.pc = "ret" /\ w.op = "Update" /\ w.ret = -1
  /\ \E k \in Clients : c[k].pc = "W_sleep" /\ c[k].addr = w.name

\* An Add has returned on a store that was initialized with a serial area,
\* for a name the router accepts and an area with room for the record.
AddReturnedWithRoom ==
  /\ w.pc = "ret" /\ w.op = "Add"
  /\ initialized_ /\ GetSerialPropArea # NoArea
  /\ GetPropAreaForName(w.name) # NoArea
  /\ w.room

\* C11: Add returns -1 whenever the name length is 0 and whenever the value
\* length is PROP_VALUE_MAX or more and the name does not begin with "ro.";
\* on an initialized store whose router accepts the name and whose area has
\* room it returns 0 in every other case: for every value length of
\* PROP_VALUE_MAX - 1 or less, and for every value length of a "ro." name.
C11_AddLengths ==
  (w.pc = "ret" /\ w.op = "Add") =>
    /\ w.namelen < 1 => w.ret = -1
    /\ (w.len >= PROP_VALUE_MAX /\ ~is_read_only(w.name)) => w.ret = -1
    /\ AddReturnedWithRoom =>
         (w.ret = 0 <=>
            /\ w.namelen >= 1
            /\ w.len <= PROP_VALUE_MAX - 1 \/ is_read_only(w.name))

\* Add of a "ro." name with a value of PROP_VALUE_MAX bytes has returned 0,
\* after an Add of PROP_VALUE_MAX - 1 bytes made the record of a.b.
C11_Witness ==
  /\ AddReturnedWithRoom
  /\ w.name = N_rox /\ w.len = PROP_VALUE_MAX /\ w.ret = 0
  /\ props[N_ab].present
  /\ SERIAL_VALUE_LEN(props[N_ab].serial) = PROP_VALUE_MAX - 1

\* C12: Wait(nullptr, old_serial, &new_serial, timeout), and so WaitAny, on
\* a store that is uninitialized or whose Contexts has no serial area returns
\* false, without blocking and without reporting a new serial.
C12_WaitWithoutAreaFails ==
  \A k \in Clients :
    (/\ c[k].pc = "done"
     /\ c[k].op \in {"Wait", "WaitAny"}
     /\ c[k].pi = NoProp
     /\ c[k].addr = NoAddr) =>
      (~c[k].ok /\ ~c[k].written)

\* C13: Init is idempotent. A call on an initialized store returns true,
\* calls ResetAccess and leaves the Contexts variant, the filename and the
\* flag as they were; a call returns true only if the store is initialized
\* then, and an initialized store stays so. On an uninitialized store, which
\* is what an Init that returned false leaves, Find returns null and Add,
\* Update and Foreach return -1.
C13_InitIdempotent ==
  [][/\ (w.pc = "idle" /\ w'.pc = "ret" /\ w'.op = "Init") =>
          /\ initialized_ =>
               (w'.ok /\ w'.name = <<"ResetAccess">> /\ UNCHANGED store)
          /\ w'.ok <=> initialized_'
     /\ initialized_ => initialized_'
     /\ (w.pc = "idle" /\ w'.pc = "ret" /\ w'.op \in {"Add", "Update"}
         /\ ~initialized_) => w'.ret = -1
     /\ \A k \in Clients :
          (c[k].pc = "idle" /\ c'[k].pc = "done" /\ ~initialized_) =>
            /\ c'[k].op = "Find" => c'[k].pi = NoProp
            /\ c'[k].op = "Foreach" => c'[k].ret = -1]_vars

\* Init has returned true from ResetAccess on a store for which an earlier
\* Init chose ContextsSplit.
C13_Witness ==
  /\ w.pc = "ret" /\ w.op = "Init" /\ w.ok
  /\ w.name = <<"ResetAccess">>
  /\ contexts_.kind = "ContextsSplit"
  /\ property_filename_ = F_dir.path

\* The step that ends an Update's stores to the record: the store of the
\* clean serial.
UpdateCompletes == w.pc = "U_clean" /\ w'.pc = "U_wake"

\* The serial the record had when the Update loaded it, before the dirty bit
\* was set: the serial of its latest epoch.
SerialBeforeDirty(n) == hist[n][Len(hist[n])][1]

\* C14 as stated: after Update(pi, value, new_len) on a record whose serial
\* was s before the dirty bit was set, the serial is
\* (new_len << 24) | ((s + 1) & 0xFFFFFF), and its dirty bit is cleared.
C14_CleanSerialIsSPlusOne ==
  [][UpdateCompletes =>
       /\ props'[w.name].serial =
            Shl24(w.len) + ((SerialBeforeDirty(w.name) + 1) % 16777216)
       /\ SERIAL_DIRTY(props'[w.name].serial) = 0]_vars

\* C14 amended: the serial is (new_len << 24) | (((s | 1) + 1) & 0xFFFFFF),
\* the + 1 applied to the dirty serial s | 1, and its dirty bit is cleared.
C14_CleanSerialFromDirty ==
  [][UpdateCompletes =>
       /\ props'[w.name].serial =
            Shl24(w.len) + ((DirtySerial(SerialBeforeDirty(w.name)) + 1) % 16777216)
       /\ SERIAL_DIRTY(props'[w.name].serial) = 0]_vars

\* An Update of length 1 has stored its clean serial over a serial whose low
\* 24 bits were 0xfffffe: the counter wrapped to 0.
C14_Witness ==
  /\ w.pc = "U_wake" /\ w.op = "Update" /\ w.len = 1
  /\ Len(hist[w.name]) >= 2
  /\ hist[w.name][Len(hist[w.name]) - 1][1] % 16777216 = 16777214
  /\ props[w.name].serial = Shl24(1)

\* C15: whenever the dirty bit of a record's serial is set, the dirty-backup
\* buffer of the record's area holds the whole value the record had before
\* the Update, of the length in the serial, and a zero byte after it; also
\* when Updates of two records of one area follow one another.
C15_DirtyHasBackup ==
  \A n \in Names :
    (props[n].present /\ SERIAL_DIRTY(props[n].serial) = 1) =>
      LET b == backup[GetPropAreaForName(n)]
          old_len == SERIAL_VALUE_LEN(props[n].serial)
          v == hist[n][Len(hist[n])][2]
      IN  /\ Len(v) = old_len
          /\ \A i \in 1..old_len : BufGet(b, i) = v[i]
          /\ BufGet(b, old_len + 1) = 0

\* The record of a.c is dirty with "A" in the backup buffer of the area,
\* which held the longer "BB" of a.b during an earlier Update of a.b.
C15_Witness ==
  /\ props[N_ac].present /\ SERIAL_DIRTY(props[N_ac].serial) = 1
  /\ CStr(backup[GetPropAreaForName(N_ac)]) = V_A
  /\ Len(hist[N_ab]) >= 2
  /\ hist[N_ab][1][2] = V_BB

\* The record of name holds the value and the clean serial of its latest
\* epoch.
HoldsLatest(n) ==
  /\ props[n].present
  /\ props[n].serial = hist[n][Len(hist[n])][1]
  /\ SERIAL_DIRTY(props[n].serial) = 0
  /\ CStr(props[n].value) = hist[n][Len(hist[n])][2]

\* The Adds and Updates whose increment of the area-serial has been stored.
PublishedCalls ==
  UNION {{<<n, j>> : j \in 1..Published(n)} : n \in Names}

\* C16: the area-serial is stored only by an Add after the record is
\* inserted, and by an Update after the new value and the clean serial are
\* stored and the waiters on the record woken, so that its value is the
\* number of the calls that have got that far; and a reader that loads an
\* area-serial counting an Add or Update of a name and then gets that name
\* finds the record and reads the value of that call or of a later one.
C16_AreaSerialLast ==
  [][/\ areaSerial = Cardinality(PublishedCalls)
     /\ areaSerial' # areaSerial =>
          /\ w.pc \in {"A_area", "U_area"}
          /\ HoldsLatest(w.name)
          /\ \A k \in Clients :
               ~(/\ c[k].pc = "W_sleep"
                 /\ c[k].addr = w.name
                 /\ c[k].old # props[w.name].serial)
     /\ \A k \in Clients :
          (/\ c[k].pc # "done" /\ c'[k].pc = "done"
           /\ c'[k].op = "Get"
           /\ c'[k].seen[c'[k].name] >= 1) =>
            /\ c'[k].pi = c'[k].name
            /\ \E j \in c'[k].seen[c'[k].name] .. Len(hist[c'[k].name]) :
                 /\ hist[c'[k].name][j][1] =
                      c'[k].serial - SERIAL_DIRTY(c'[k].serial)
                 /\ hist[c'[k].name][j][2] = CStr(c'[k].value)]_vars

\* A reader loaded the area-serial an Update of a.b to "A" had stored, and
\* its Get of a.b, beside a later Update, returned "A".
C16_Witness ==
  \E k \in Clients :
    /\ c[k].pc = "done" /\ c[k].op = "Get" /\ c[k].name = N_ab
    /\ c[k].seen[N_ab] = 2
    /\ hist[N_ab][2][2] = V_A
    /\ CStr(c[k].value) = V_A
    /\ ~c[k].quiet
    /\ Len(hist[N_ab]) >= 3

\* C17: a Wait that has chosen its serial_ptr returns true only from a load
\* of a serial other than old_serial, which it reports; a load of old_serial,
\* after a wake-up that was spurious or meant for nothing, sends it back to
\* the futex wait; it returns false only from a futex wait that timed out,
\* and then reports no serial.
C17_WaitLoop ==
  [][\A k \in Clients :
       /\ (/\ c[k].pc \in {"W_futex", "W_sleep", "W_load"}
           /\ c'[k].pc = "done") =>
            IF c'[k].ok
              THEN /\ c[k].pc = "W_load"
                   /\ c'[k].written
                   /\ c'[k].new_serial = Load(c[k].addr)
                   /\ c'[k].new_serial # c[k].old
              ELSE /\ c[k].pc = "W_sleep"
                   /\ c[k].tmo
                   /\ ~c'[k].written
       /\ (/\ c[k].pc = "W_load"
           /\ Load(c[k].addr) = c[k].old
           /\ c'[k].pc # "W_load") => c'[k].pc = "W_futex"]_vars

\* A Wait on a record was woken while the serial was still old_serial, and
\* is back at its futex wait.
C17_Witness ==
  \E k \in Clients :
    /\ c[k].pc = "W_futex" /\ c[k].op = "Wait"
    /\ c[k].addr = N_ab
    /\ c[k].old # 0
    /\ c[k].new_serial = c[k].old
    /\ Load(c[k].addr) = c[k].old

\* C18: whenever the dirty bit of a record's serial is 0, serial >> 24 is
\* the length of the zero-terminated string in the record's inline value,
\* after any Adds and any Updates that returned 0, whatever value and length
\* each Update was given.
C18_LengthIsStrlen ==
  \A n \in Names :
    (props[n].present /\ SERIAL_DIRTY(props[n].serial) = 0) =>
      SERIAL_VALUE_LEN(props[n].serial) = Len(CStr(props[n].value))

\* The value C19 says ReadCallback delivers to a caller of that uid for a
\* record of that name whose stored value is stored.
Delivered(uid, n, stored) ==
  IF (uid \in 10000..19999) \/ (uid \in 90000..99999)
    THEN IF n = N_adbd THEN S_stopped
         ELSE IF n = N_configfs THEN S_0
         ELSE IF n \in {N_persist_usb_config, N_usb_config, N_usb_state}
           THEN S_none
         ELSE stored
    ELSE stored

\* C19: ReadCallback delivers the record's name, the serial it read and the
\* value it read, the value of the epoch of that serial, except that to a
\* uid in 10000..19999 or 90000..99999 it delivers "stopped" for
\* init.svc.adbd, "0" for sys.usb.configfs and "none" for
\* persist.sys.usb.config, sys.usb.config and sys.usb.state; Read and Get
\* return the value of an epoch of the record for these names too.
C19_CallbackSubstitution ==
  \A k \in Clients :
    /\ (c[k].pc = "done" /\ c[k].op = "ReadCallback") =>
         \E j \in 1..Len(hist[c[k].pi]) :
           /\ hist[c[k].pi][j][1] = c[k].serial - SERIAL_DIRTY(c[k].serial)
           /\ c[k].cb = <<c[k].pi, Delivered(c[k].uid, c[k].pi, hist[c[k].pi][j][2]),
                          c[k].serial>>
    /\ (c[k].pc = "done" /\ c[k].op \in {"Read", "Get"} /\ c[k].pi \in UsbNames) =>
         /\ IsEpoch(c[k].pi, c[k].serial, CStr(c[k].value))
         /\ c[k].ret = Len(CStr(c[k].value))

\* ReadCallback has delivered "none" for sys.usb.state to uid 19999 after an
\* Update stored "BB" in the record.
C19_Witness ==
  \E k \in Clients :
    /\ c[k].pc = "done" /\ c[k].op = "ReadCallback"
    /\ c[k].pi = N_usb_state /\ c[k].uid = 19999
    /\ c[k].cb[2] = S_none
    /\ CStr(c[k].value) = V_BB
    /\ c[k].quiet

\* C20: with a writer that makes finitely many Updates, each run to its end,
\* and fair scheduling, every call of ReadMutablePropertyValue returns; and
\* its loop goes round again only when the serial it reloads is not the
\* serial it loaded before the copy.
C20_ReaderTerminates ==
  /\ \A k \in Clients :
       (c[k].pc \in {"R_copy", "R_reload"}) ~> (c[k].pc = "done")
  /\ [][\A k \in Clients :
          (c[k].pc = "R_reload" /\ c'[k].pc = "R_copy") =>
            /\ props[c[k].pi].serial # c[k].serial
            /\ c'[k].serial = props[c[k].pi].serial]_vars

\* A reader is about to reload the serial of a record whose serial the
\* writer has changed since the reader loaded it: it will go round again.
C20_Witness ==
  \E k \in Clients :
    /\ c[k].pc = "R_reload"
    /\ props[c[k].pi].serial # c[k].serial
    /\ c[k].serial # c[k].atcall

====
